---------------------------- MODULE Spec2Model ----------------------------
(***************************************************************************)
(* A model of the resume analyser (app/services.py, app/db_service.py,     *)
(* app/main.py, app/constants.py).                                         *)
(*                                                                         *)
(* Python strings are TLA+ strings; a character is a string of length 1.   *)
(* A Python list is a sequence, a set is a set, an Optional value is a     *)
(* sequence of length 0 (None) or 1.  A float score is the exact rational  *)
(* [num, den] it approximates.                                             *)
(***************************************************************************)
EXTENDS Integers, Sequences, FiniteSets, TLC

VARIABLES
    \* ---- direct calls of the pure analysis functions ----
    catalog,          \* the skill catalog the process has loaded
    text_in,          \* the text last given to extract_skills
    skills,           \* a list of Skill: extract_skills' result, or built by a caller
    target_in,        \* the role name last given to analyze_target_role
    role_matches,     \* the result of suggest_role_matches
    target_analysis,  \* the result of analyze_target_role: None or a dict
    called,           \* the functions applied since `skills` was set
    \* ---- the process ----
    GEMINI_API_KEY,   \* settings.GEMINI_API_KEY
    nlp,              \* main.nlp: TRUE when the spaCy model is loaded, FALSE for None
    db_client,        \* app.state.db_client: TRUE for a client, FALSE for None
    audit_log,        \* the documents of the "logs" collection, in insertion order
    \* ---- one analysis per request ----
    pc,               \* where the request's coroutine stands
    request,          \* [via, filename, target_role]
    resume_text,      \* the text extracted from the upload
    analysis,         \* the locals of analyze_resume_file set by steps 2 and 3
    gen,              \* the locals of get_personalized_feedback's retry loop
    last_answer,      \* <<>>, or <<what the latest generation call answered>>
    personalized_feedback,  \* None until get_personalized_feedback returns
    generate_calls,   \* how many times the generation backend was called
    slept,            \* the delays given to asyncio.sleep, in order
    insert_calls,     \* how many times insert_one was called
    insert_result,    \* "none", "ok" or "failed"
    stages,           \* the stages the analysis has passed, in order
    outcome,          \* what the caller of the request gets
    \* ---- the call of the metrics ----
    metrics_call,     \* where the call of get_metrics stands, and its result
    \* ---- the snippet of an AnalysisResponse ----
    snippet           \* [text, extractedText]: a text, and the field made of it

pure_vars == <<catalog, text_in, skills, target_in, role_matches, target_analysis, called>>

process_vars == <<GEMINI_API_KEY, nlp, db_client, audit_log>>

request_vars == <<pc, request, resume_text, analysis, gen, last_answer,
                  personalized_feedback, generate_calls, slept, insert_calls,
                  insert_result, stages, outcome>>

metrics_vars == <<metrics_call>>

snippet_vars == <<snippet>>

vars == <<pure_vars, process_vars, request_vars, metrics_vars, snippet_vars>>

-----------------------------------------------------------------------------
(* Strings                                                                 *)

\* The characters of the documents and catalogs, in code point order.
Ascii == "\n #+,-./0123456789:ABCDEFGHIJKLMNOPQRSTUVWXYZ_abcdefghijklmnopqrstuvwxyz"
UpperChars == "ABCDEFGHIJKLMNOPQRSTUVWXYZ"
LowerChars == "abcdefghijklmnopqrstuvwxyz"
Digits == "0123456789"

Char(s, i) == SubSeq(s, i, i)

CharsOf(s) == {Char(s, i) : i \in 1..Len(s)}

\* ord(c), by position in Ascii
OrdTable == [c \in CharsOf(Ascii) |-> CHOOSE i \in 1..Len(Ascii) : Char(Ascii, i) = c]
Ord(c) == OrdTable[c]

\* str.lower() on one character
LowerTable ==
    [c \in CharsOf(Ascii) |->
        IF c \in CharsOf(UpperChars)
        THEN Char(LowerChars, CHOOSE i \in 1..Len(UpperChars) : Char(UpperChars, i) = c)
        ELSE c]
LowerChar(c) == LowerTable[c]

\* str.lower(): every character lowered (the string is halved to keep the
\* evaluation shallow)
RECURSIVE lower(_)
lower(s) ==
    IF Len(s) = 0 THEN ""
    ELSE IF Len(s) = 1 THEN LowerChar(s)
    ELSE LET h == Len(s) \div 2
         IN  lower(SubSeq(s, 1, h)) \o lower(SubSeq(s, h + 1, Len(s)))

\* Python's < on str: lexicographic by code point
RECURSIVE StrLess(_, _)
StrLess(a, b) ==
    IF b = "" THEN FALSE
    ELSE IF a = "" THEN TRUE
    ELSE IF Head(a) = Head(b) THEN StrLess(Tail(a), Tail(b))
    ELSE Ord(Head(a)) < Ord(Head(b))

\* sorted(list(S)) for a set S of strings
RECURSIVE sorted(_)
sorted(S) ==
    IF S = {} THEN <<>>
    ELSE LET m == CHOOSE x \in S : \A y \in S \ {x} : StrLess(x, y)
         IN  <<m>> \o sorted(S \ {m})

\* str.strip(): leading and trailing whitespace removed
Whitespace == {" ", "\n"}

RECURSIVE lstrip(_)
lstrip(s) == IF s # "" /\ Head(s) \in Whitespace THEN lstrip(Tail(s)) ELSE s

RECURSIVE rstrip(_)
rstrip(s) ==
    IF s # "" /\ Char(s, Len(s)) \in Whitespace THEN rstrip(SubSeq(s, 1, Len(s) - 1)) ELSE s

strip(s) == rstrip(lstrip(s))

Range(seq) == {seq[i] : i \in 1..Len(seq)}

-----------------------------------------------------------------------------
(* app/constants.py                                                        *)

\* An ordered dict: a sequence of <<key, value>> in declaration order.
SKILL_CATEGORIES == <<
    <<"Programming Languages", <<
        "python", "java", "javascript", "typescript", "c++", "c#", "go", "golang", "ruby",
        "php", "swift", "kotlin", "r", "matlab", "sql", "scala", "perl", "rust" >> >>,
    <<"Web Development (Frontend)", <<
        "html", "css", "react", "angular", "vue", "vue.js", "next.js", "nextjs",
        "svelte", "jquery", "bootstrap", "tailwind", "tailwindcss", "sass", "less", "webpack", "babel" >> >>,
    <<"Web Development (Backend)", <<
        "node.js", "nodejs", "express", "django", "flask", "fastapi", "ruby on rails",
        "spring", "spring boot", ".net", "asp.net", "laravel" >> >>,
    <<"Database Systems", <<
        "mysql", "postgresql", "mongodb", "redis", "oracle", "sqlite",
        "microsoft sql server", "sql server", "cassandra", "elasticsearch", "dynamodb", "firebase" >> >>,
    <<"DevOps & Cloud", <<
        "aws", "azure", "gcp", "google cloud platform", "docker", "kubernetes", "k8s",
        "terraform", "ansible", "jenkins", "gitlab ci", "github actions", "ci/cd",
        "prometheus", "grafana", "linux", "bash", "powershell", "nginx", "apache" >> >>,
    <<"Data Science & ML", <<
        "tensorflow", "pytorch", "scikit-learn", "keras", "pandas", "numpy", "scipy",
        "matplotlib", "seaborn", "jupyter", "spark", "apache spark", "hadoop", "nlp",
        "computer vision", "opencv", "d3.js", "tableau", "power bi", "looker" >> >>,
    <<"Project Management & Tools", <<
        "agile", "scrum", "kanban", "jira", "confluence", "trello", "asana", "git",
        "github", "gitlab", "bitbucket", "svn", "project management" >> >>,
    <<"Soft Skills", <<
        "leadership", "communication", "teamwork", "problem solving", "analytical",
        "critical thinking", "collaboration", "mentoring", "adaptability", "time management" >> >>
>>

JOB_ROLES == <<
    [role |-> "Software Engineer",
     required_skills |-> <<"python", "java", "javascript", "sql", "git", "teamwork">>,
     good_to_have |-> <<"docker", "kubernetes", "aws", "ci/cd", "agile", "react", "node.js", "c++">>,
     experience_keywords |-> <<"development", "implementation", "testing", "debugging", "optimization", "code review">>],
    [role |-> "Data Scientist",
     required_skills |-> <<"python", "r", "sql", "pandas", "scikit-learn", "matplotlib">>,
     good_to_have |-> <<"tensorflow", "pytorch", "spark", "tableau", "power bi", "nlp", "computer vision", "aws">>,
     experience_keywords |-> <<"analysis", "modeling", "visualization", "research", "prediction", "a/b testing", "algorithms">>],
    [role |-> "Frontend Developer",
     required_skills |-> <<"html", "css", "javascript", "react", "git", "api">>,
     good_to_have |-> <<"typescript", "vue", "angular", "next.js", "tailwind", "figma", "sass", "webpack">>,
     experience_keywords |-> <<"frontend", "ui", "user interface", "web applications", "responsive", "cross-browser">>],
    [role |-> "Backend Developer",
     required_skills |-> <<"node.js", "python", "java", "sql", "api", "rest", "git", "mongodb", "postgresql">>,
     good_to_have |-> <<"docker", "kubernetes", "aws", "gcp", "django", "flask", "spring boot", "microservices", "graphql">>,
     experience_keywords |-> <<"backend", "api development", "database design", "server-side", "microservices", "performance">>],
    [role |-> "DevOps Engineer",
     required_skills |-> <<"linux", "aws", "docker", "kubernetes", "ci/cd", "jenkins", "terraform", "bash">>,
     good_to_have |-> <<"python", "ansible", "prometheus", "grafana", "gcp", "azure", "security">>,
     experience_keywords |-> <<"automation", "deployment", "monitoring", "infrastructure", "iac", "scalability", "reliability">>]
>>

\* `x in JOB_ROLES`, JOB_ROLES[x]
RoleNames == {JOB_ROLES[i].role : i \in 1..Len(JOB_ROLES)}
RoleEntry(name) == JOB_ROLES[CHOOSE i \in 1..Len(JOB_ROLES) : JOB_ROLES[i].role = name]

-----------------------------------------------------------------------------
(* app/models.py                                                           *)

Skill(name, category) == [name |-> name, category |-> category]

RoleMatch(role, score) == [role |-> role, score |-> score]

None == <<>>
Some(x) == <<x>>

-----------------------------------------------------------------------------
(* Scores.  A Python float is modelled by the rational it approximates;    *)
(* for the sizes of JOB_ROLES the float comparisons and the roundings to   *)
(* two decimals agree with the exact ones.                                 *)

RECURSIVE GCD(_, _)
GCD(a, b) == IF b = 0 THEN a ELSE GCD(b, a % b)

\* The rational n/d (n >= 0, d > 0) in lowest terms
Rat(n, d) == LET g == GCD(d, n) IN [num |-> n \div g, den |-> d \div g]
RatAdd(a, b) == Rat(a.num * b.den + b.num * a.den, a.den * b.den)
RatScale(a, n, d) == Rat(a.num * n, a.den * d)
RatLess(a, b) == a.num * b.den < b.num * a.den
RatEq(a, b) == a.num * b.den = b.num * a.den

\* round(x, 2): the nearest multiple of 1/100, a tie going to the even one
round2(x) ==
    LET n == x.num * 100
        q == n \div x.den
        r == n % x.den
        h == IF 2 * r > x.den THEN q + 1
             ELSE IF 2 * r < x.den THEN q
             ELSE IF q % 2 = 0 THEN q ELSE q + 1
    IN  Rat(h, 100)

-----------------------------------------------------------------------------
(* app/services.py: extract_skills                                         *)

\* \w of the re module
WordChars == CharsOf(Digits) \cup CharsOf(UpperChars) \cup CharsOf(LowerChars) \cup {"_"}

IsWordAt(s, i) == i >= 1 /\ i <= Len(s) /\ Char(s, i) \in WordChars

\* \b holds between characters p-1 and p of s (p = 1 the start, Len(s)+1 the end)
WordBoundary(s, p) == IsWordAt(s, p - 1) # IsWordAt(s, p)

\* r'\b' + re.escape(skill_lower) + r's?\b' matches s from position i:
\* the keyword is matched literally
PatternMatchesAt(skill_lower, s, i) ==
    LET e == i + Len(skill_lower)   \* the position after the keyword
    IN  /\ e - 1 <= Len(s)
        /\ SubSeq(s, i, e - 1) = skill_lower
        /\ WordBoundary(s, i)
        /\ \/ e <= Len(s) /\ Char(s, e) = "s" /\ WordBoundary(s, e + 1)
           \/ WordBoundary(s, e)

\* re.search(pattern, text_lower)
re_search(skill_lower, s) == \E i \in 1..Len(s) : PatternMatchesAt(skill_lower, s, i)

\* `for category, skills_list in SKILL_CATEGORIES.items(): for skill in skills_list`:
\* the <<category, skill>> pairs in iteration order
RECURSIVE CatalogItems(_)
CatalogItems(cat) ==
    IF cat = <<>> THEN <<>>
    ELSE [k \in 1..Len(Head(cat)[2]) |-> <<Head(cat)[1], Head(cat)[2][k]>>]
         \o CatalogItems(Tail(cat))

\* ExtractStep without the test of found_skill_names
ExtractStepNoSeenTest(acc, item, text_lower) ==
    IF re_search(lower(item[2]), text_lower)
    THEN [skills_found |-> Append(acc.skills_found, Skill(item[2], item[1])),
          found_skill_names |-> acc.found_skill_names \cup {lower(item[2])}]
    ELSE acc

\* One iteration of the inner loop on `acc` = [skills_found, found_skill_names]
ExtractStep(acc, item, text_lower) ==
    LET category == item[1]
        skill == item[2]
        skill_lower == lower(skill)
    IN  IF skill_lower \in acc.found_skill_names
        THEN acc
        ELSE IF re_search(skill_lower, text_lower)
             THEN [skills_found |-> Append(acc.skills_found, Skill(skill, category)),
                   found_skill_names |-> acc.found_skill_names \cup {skill_lower}]
             ELSE acc

\* The iterations lo..hi of the loop, in order, from `acc`.  The range is
\* halved, and the first half evaluated before the second starts (the test
\* on `first` only orders the evaluation), to keep the evaluation shallow.
RECURSIVE ExtractLoop(_, _, _, _, _)
ExtractLoop(items, lo, hi, text_lower, acc) ==
    IF lo > hi THEN acc
    ELSE IF lo = hi THEN ExtractStep(acc, items[lo], text_lower)
    ELSE LET mid == (lo + hi) \div 2
             first == ExtractLoop(items, lo, mid, text_lower, acc)
         IN  IF first.skills_found = <<>>
             THEN ExtractLoop(items, mid + 1, hi, text_lower, first)
             ELSE ExtractLoop(items, mid + 1, hi, text_lower, first)

extract_skills(text) ==
    LET items == CatalogItems(catalog)
    IN  ExtractLoop(items, 1, Len(items), lower(text),
                    [skills_found |-> <<>>, found_skill_names |-> {}]).skills_found

-----------------------------------------------------------------------------
(* app/services.py: suggest_role_matches, analyze_target_role              *)

\* SkillNamesFound without the lowering of the names
SkillNamesFound_AsWritten(skill_list) == {skill_list[i].name : i \in 1..Len(skill_list)}

\* {s.name.lower() for s in skills}
SkillNamesFound(skill_list) == {lower(skill_list[i].name) : i \in 1..Len(skill_list)}

\* (n / total) if total > 0 else 0
Fraction(n, total) == IF total > 0 THEN Rat(n, total) ELSE Rat(0, 1)

\* (required_score * 0.7 + good_to_have_score * 0.3) * 100
FinalScore(required_score, good_to_have_score) ==
    RatScale(RatAdd(RatScale(required_score, 7, 10), RatScale(good_to_have_score, 3, 10)), 100, 1)

\* The score of one role, the body of the loop of suggest_role_matches
RoleScore(requirements, skill_names_found) ==
    LET total_required == Len(requirements.required_skills)
        total_good_to_have == Len(requirements.good_to_have)
        required_found == skill_names_found \cap Range(requirements.required_skills)
        good_to_have_found == skill_names_found \cap Range(requirements.good_to_have)
    IN  FinalScore(Fraction(Cardinality(required_found), total_required),
                   Fraction(Cardinality(good_to_have_found), total_good_to_have))

\* InsertDesc by a sort that is not stable: the item goes before the items
\* of equal key
InsertDescBeforeEqual(sorted_items, item) ==
    LET n == Len(sorted_items)
        pos == Cardinality({i \in 1..n : RatLess(item[2], sorted_items[i][2])})
    IN  SubSeq(sorted_items, 1, pos) \o <<item>> \o SubSeq(sorted_items, pos + 1, n)

\* Where sorted(..., reverse=True) puts an item among the already sorted ones:
\* after every item whose key is not smaller (the sort is stable)
InsertDesc(sorted_items, item) ==
    LET n == Len(sorted_items)
        pos == CHOOSE p \in 0..n :
                   /\ \A i \in 1..p : ~RatLess(sorted_items[i][2], item[2])
                   /\ p < n => RatLess(sorted_items[p + 1][2], item[2])
    IN  SubSeq(sorted_items, 1, pos) \o <<item>> \o SubSeq(sorted_items, pos + 1, n)

\* sorted(role_scores.items(), key=lambda item: item[1], reverse=True)
RECURSIVE SortByScoreDesc(_, _, _)
SortByScoreDesc(items, k, acc) ==
    IF k > Len(items) THEN acc
    ELSE SortByScoreDesc(items, k + 1, InsertDesc(acc, items[k]))

suggest_role_matches(skill_list) ==
    LET skill_names_found == SkillNamesFound(skill_list)
        role_scores == [i \in 1..Len(JOB_ROLES) |->
                           <<JOB_ROLES[i].role, RoleScore(JOB_ROLES[i], skill_names_found)>>]
        sorted_roles == SortByScoreDesc(role_scores, 1, <<>>)
    IN  [i \in 1..Len(sorted_roles) |-> RoleMatch(sorted_roles[i][1], round2(sorted_roles[i][2]))]

\* The dict built by analyze_target_role for a role of the catalog
TargetRoleBreakdown(skill_list, target_role) ==
    LET requirements == RoleEntry(target_role)
        skill_names_found == SkillNamesFound(skill_list)
        required_skills_set == Range(requirements.required_skills)
        good_to_have_set == Range(requirements.good_to_have)
        req_score == Fraction(Cardinality(skill_names_found \cap required_skills_set),
                              Cardinality(required_skills_set))
        gth_score == Fraction(Cardinality(skill_names_found \cap good_to_have_set),
                              Cardinality(good_to_have_set))
    IN  [role |-> target_role,
         score |-> FinalScore(req_score, gth_score),
         required_found |-> sorted(skill_names_found \cap required_skills_set),
         required_missing |-> sorted(required_skills_set \ skill_names_found),
         good_to_have_found |-> sorted(skill_names_found \cap good_to_have_set),
         good_to_have_missing |-> sorted(good_to_have_set \ skill_names_found)]

\* analyze_target_role answering an unknown role with an empty breakdown
analyze_target_role_EmptyForUnknown(skill_list, target_role) ==
    IF target_role \notin RoleNames
    THEN Some([role |-> target_role, score |-> Rat(0, 1),
               required_found |-> <<>>, required_missing |-> <<>>,
               good_to_have_found |-> <<>>, good_to_have_missing |-> <<>>])
    ELSE Some(TargetRoleBreakdown(skill_list, target_role))

analyze_target_role(skill_list, target_role) ==
    IF target_role \notin RoleNames
    THEN None
    ELSE Some(TargetRoleBreakdown(skill_list, target_role))

-----------------------------------------------------------------------------
(* The analysis of an upload: app/main.py analyze_resume, app/services.py  *)
(* analyze_resume_file and get_personalized_feedback, app/db_service.py    *)
(* log_analysis_to_db.  A request is a coroutine: it gives up control at   *)
(* its awaits only (the read of the upload, the generation call,           *)
(* asyncio.sleep, insert_one), so an action runs a request from one await  *)
(* to the next.                                                            *)

\* tests/test_services.py: sample_text_swe, sample_text_ds
sample_text_swe == "\n Skills:\n Python, Java, Git, Docker, Kubernetes, AWS, SQL, JavaScript, React\n "
sample_text_ds == "\n Skills:\n Python, R, SQL, Pandas, Scikit-learn, TensorFlow, Matplotlib, Tableau\n "

Requests == {"r1", "r2"}

PLACEHOLDER_KEY == "YOUR_GEMINI_API_KEY_GOES_HERE"
ApiKeys == {"", PLACEHOLDER_KEY, "a-key"}

max_retries == 3
initial_delay == 1
TruncateAt == 2000

\* The requests made: who calls ("http": the endpoint, "direct": another
\* caller of analyze_resume_file), the name of the upload, the target role
RequestCases ==
    {[via |-> "http", filename |-> "cv.pdf", target_role |-> "Software Engineer"],
     [via |-> "http", filename |-> "cv.docx", target_role |-> "Galactic Emperor"],
     [via |-> "http", filename |-> "cv.txt", target_role |-> "Software Engineer"],
     [via |-> "direct", filename |-> "cv.docx", target_role |-> "Software Engineer"],
     [via |-> "direct", filename |-> "cv.pdf", target_role |-> "Galactic Emperor"],
     [via |-> "direct", filename |-> "cv.PDF", target_role |-> "Software Engineer"]}

\* The texts the extraction of an upload yields
ExtractedTexts == {"", " \n ", "Python, Java, SQL and Git."}

\* What the generation backend answers to one call: an exception, or a
\* completion.  response.text is readable only when the finish reason is
\* STOP; a completion may carry no candidate at all, or a candidate whose
\* finish_reason has no name.
FinishReasons == {"SAFETY"}
Completion(kind, reason, content) == [kind |-> kind, reason |-> reason, content |-> content]
Completions ==
    {Completion("STOP", "STOP", "* Strong Python profile")}
    \cup {Completion("stopped", reason, "") : reason \in FinishReasons}
    \cup {Completion("no_candidates", "", ""), Completion("unnamed_reason", "", "")}

NOT_CONFIGURED == "Error: AI feedback service is not configured."
COULD_NOT_CONFIGURE == "Error: Could not configure AI feedback service."
NO_RESPONSE == "Error: Unable to generate AI feedback (No response from model)."
AT_THIS_TIME == "Error: Unable to generate AI feedback at this time."
FailedForReason(reason_name) == "Error: AI feedback generation failed (Reason: " \o reason_name \o ")."
UNSUPPORTED == "Unsupported file type"
NO_TEXT == "Could not extract text from the document. It might be empty or image-based."
INVALID_TYPE == "Invalid file type. Please upload a .pdf or .docx file."

\* str.endswith
endswith(s, suffix) ==
    Len(s) >= Len(suffix) /\ SubSeq(s, Len(s) - Len(suffix) + 1, Len(s)) = suffix

Min(a, b) == IF a < b THEN a ELSE b

\* text[:n]
Prefix(s, n) == SubSeq(s, 1, Min(n, Len(s)))

\* The extractedText of an AnalysisResponse, with the marker only on a text
\* that was cut
extractedText_MarkerWhenCut(text) ==
    IF Len(text) > TruncateAt THEN Prefix(text, TruncateAt) \o "..." ELSE text

\* The extractedText of an AnalysisResponse: text[:2000] + "..."
extractedText(text) == Prefix(text, TruncateAt) \o "..."

\* analyze_experience and analyze_education: lists of snippets of the text.
\* Their scanners are not modelled; a failure of the entity recogniser is
\* caught inside analyze_experience.
analyze_experience(t) == <<"experience", t>>
analyze_education(t) == <<"education", t>>

NoRequest == [via |-> "", filename |-> "", target_role |-> ""]
NoAnalysis ==
    [skills |-> <<>>, experience_summary |-> <<>>, education_summary |-> <<>>,
     role_matches |-> <<>>, target_role_analysis |-> None, feedback_data |-> None,
     target_score |-> Rat(0, 1)]
NoGen == [attempt |-> 0, delay |-> 0, response |-> None]
NoOutcome == [kind |-> "none", status |-> 0, detail |-> "", body |-> None]

HTTPException(status_code, detail) ==
    [kind |-> "HTTPException", status |-> status_code, detail |-> detail, body |-> None]
RaisedValueError(message) ==
    [kind |-> "ValueError", status |-> 0, detail |-> message, body |-> None]
\* Returned, with the "not configured" feedback turned into a 400
Returned_UnconfiguredAs400(via, response) ==
    IF response.personalizedFeedback = NOT_CONFIGURED
    THEN IF via = "http"
         THEN HTTPException(400, response.personalizedFeedback)
         ELSE RaisedValueError(response.personalizedFeedback)
    ELSE [kind |-> "AnalysisResponse", status |-> IF via = "http" THEN 200 ELSE 0,
          detail |-> "", body |-> Some(response)]

\* The value analyze_resume_file returns: the body of the endpoint's 200
\* answer, the return value of a direct call
Returned(via, response) ==
    [kind |-> "AnalysisResponse", status |-> IF via = "http" THEN 200 ELSE 0,
     detail |-> "", body |-> Some(response)]

\* Any other exception out of analyze_resume_file: main.analyze_resume turns
\* it into a 500, a direct caller gets the exception
UnexpectedErrorOutcome(via, message) ==
    IF via = "http"
    THEN HTTPException(500, "An unexpected error occurred: " \o message)
    ELSE [kind |-> "Exception", status |-> 0, detail |-> message, body |-> None]

\* `raise ValueError(message)` in analyze_resume_file: main.analyze_resume
\* turns it into a 400, a direct caller gets the exception
ValueErrorOutcome(via, message) ==
    IF via = "http" THEN HTTPException(400, message) ELSE RaisedValueError(message)

\* `filename.endswith(".pdf")` or `filename.endswith(".docx")`
SupportedExtension(filename) == endswith(filename, ".pdf") \/ endswith(filename, ".docx")

\* Blank with the test of the empty string only
Blank_EmptyOnly(t) == t = ""

\* `not text.strip()`
Blank(t) == strip(t) = ""

\* The test of the credential with the empty string only
CredentialMissing_EmptyOnly(apiKey) == apiKey = ""

\* `not apiKey or apiKey == "YOUR_GEMINI_API_KEY_GOES_HERE"`
CredentialMissing(apiKey) == apiKey = "" \/ apiKey = PLACEHOLDER_KEY

\* The next delay without the doubling
NextDelay_Same(delay) == delay

\* `delay *= 2`
NextDelay(delay) == delay * 2

\* The stages of an analysis, in the order of the statements of
\* analyze_resume_file
StageOrder == <<"RECEIVED", "TEXT_EXTRACTED", "ANALYZED", "SCORED",
                "FEEDBACK_OBTAINED", "LOGGED", "RESPONDED">>

\* The request ends with an error
Fails(r, result) ==
    /\ outcome' = [outcome EXCEPT ![r] = result]
    /\ pc' = [pc EXCEPT ![r] = "failed"]

\* feedback_data of step 3: {} when analyze_target_role returned None
FeedbackData(target_role_analysis, skill_list, target_role) ==
    IF target_role_analysis = None
    THEN None
    ELSE Some([analysis_of |-> target_role_analysis[1],
               total_skills |-> Len(skill_list),
               experience_keywords |->
                   IF target_role \in RoleNames
                   THEN RoleEntry(target_role).experience_keywords ELSE <<>>])

\* Steps 2 and 3 of analyze_resume_file up to the call of
\* get_personalized_feedback: the locals they set
RunAnalyses(t, target_role) ==
    LET found == extract_skills(t)
        target_role_analysis == analyze_target_role(found, target_role)
    IN  [skills |-> found,
         experience_summary |-> analyze_experience(t),
         education_summary |-> analyze_education(t),
         role_matches |-> suggest_role_matches(found),
         target_role_analysis |-> target_role_analysis,
         feedback_data |-> FeedbackData(target_role_analysis, found, target_role),
         target_score |-> IF target_role_analysis = None THEN Rat(0, 1)
                          ELSE target_role_analysis[1].score]

\* get_personalized_feedback has returned `feedback`: step 4 of
\* analyze_resume_file builds log_document and log_analysis_to_db awaits
\* insert_one
log_analysis_to_db(r, feedback, stages_so_far) ==
    /\ personalized_feedback' = [personalized_feedback EXCEPT ![r] = Some(feedback)]
    /\ stages' = [stages EXCEPT ![r] = Append(stages_so_far, "FEEDBACK_OBTAINED")]
    /\ insert_calls' = [insert_calls EXCEPT ![r] = @ + 1]
    /\ pc' = [pc EXCEPT ![r] = "inserting"]
    /\ UNCHANGED outcome

\* get_personalized_feedback up to its first await: the test of the
\* credential, genai.configure, the first call of the backend
get_personalized_feedback(r, configure_ok, stages_so_far) ==
    IF CredentialMissing(GEMINI_API_KEY)
    THEN /\ log_analysis_to_db(r, NOT_CONFIGURED, stages_so_far)
         /\ UNCHANGED <<gen, generate_calls>>
    ELSE IF ~configure_ok
    THEN /\ log_analysis_to_db(r, COULD_NOT_CONFIGURE, stages_so_far)
         /\ UNCHANGED <<gen, generate_calls>>
    ELSE /\ gen' = [gen EXCEPT ![r] =
                [attempt |-> 0, delay |-> initial_delay, response |-> None]]
         /\ generate_calls' = [generate_calls EXCEPT ![r] = @ + 1]
         /\ stages' = [stages EXCEPT ![r] = stages_so_far]
         /\ pc' = [pc EXCEPT ![r] = "generating"]
         /\ UNCHANGED <<personalized_feedback, insert_calls, outcome>>

\* analyze_resume_file from its first statement to its first await
analyze_resume_file(r, req) ==
    \E t \in ExtractedTexts, configure_ok \in BOOLEAN :
        IF ~SupportedExtension(req.filename)
        THEN /\ Fails(r, ValueErrorOutcome(req.via, UNSUPPORTED))
             /\ stages' = [stages EXCEPT ![r] = <<"RECEIVED">>]
             /\ UNCHANGED <<resume_text, analysis, gen, personalized_feedback,
                            generate_calls, insert_calls>>
        ELSE IF Blank(t)
        THEN /\ Fails(r, ValueErrorOutcome(req.via, NO_TEXT))
             /\ resume_text' = [resume_text EXCEPT ![r] = t]
             /\ stages' = [stages EXCEPT ![r] = <<"RECEIVED", "TEXT_EXTRACTED">>]
             /\ UNCHANGED <<analysis, gen, personalized_feedback, generate_calls, insert_calls>>
        ELSE /\ resume_text' = [resume_text EXCEPT ![r] = t]
             /\ analysis' = [analysis EXCEPT ![r] = RunAnalyses(t, req.target_role)]
             /\ get_personalized_feedback(r, configure_ok,
                    <<"RECEIVED", "TEXT_EXTRACTED", "ANALYZED", "SCORED">>)

\* main.analyze_resume up to its await of the upload's read
analyze_resume(r) ==
    /\ pc[r] = "idle"
    /\ \E req \in {c \in RequestCases : c.via = "http"} :
        request' = [request EXCEPT ![r] = req]
    /\ IF ~nlp
       THEN Fails(r, HTTPException(500, "NLP model is not loaded on the server."))
       ELSE IF ~db_client
       THEN Fails(r, HTTPException(500, "Database connection is not available."))
       ELSE /\ pc' = [pc EXCEPT ![r] = "reading"]
            /\ UNCHANGED outcome
    /\ UNCHANGED <<pure_vars, metrics_vars, snippet_vars, process_vars, resume_text, analysis, gen, last_answer,
                   personalized_feedback, generate_calls, slept, insert_calls,
                   insert_result, stages>>

\* The read of the upload ends; main.analyze_resume tests the file name and
\* calls analyze_resume_file
upload_read_returns(r) ==
    /\ pc[r] = "reading"
    /\ \E read_ok \in BOOLEAN :
        IF ~read_ok
        THEN /\ Fails(r, HTTPException(400, "Error reading file"))
             /\ UNCHANGED <<resume_text, analysis, gen, personalized_feedback,
                            generate_calls, insert_calls, stages>>
        ELSE IF ~SupportedExtension(request[r].filename)
        THEN /\ Fails(r, HTTPException(400, INVALID_TYPE))
             /\ UNCHANGED <<resume_text, analysis, gen, personalized_feedback,
                            generate_calls, insert_calls, stages>>
        ELSE analyze_resume_file(r, request[r])
    /\ UNCHANGED <<pure_vars, metrics_vars, snippet_vars, process_vars, request, last_answer, slept, insert_result>>

\* A call of services.analyze_resume_file by another caller than the
\* endpoint, with a spaCy model and a client of its own
call_analyze_resume_file(r) ==
    /\ pc[r] = "idle"
    /\ \E req \in {c \in RequestCases : c.via = "direct"} :
        /\ request' = [request EXCEPT ![r] = req]
        /\ analyze_resume_file(r, req)
    /\ UNCHANGED <<pure_vars, metrics_vars, snippet_vars, process_vars, last_answer, slept, insert_result>>

\* The string returned once the last attempt has failed, from `response`
FinalError(response) ==
    IF response # None /\ response[1].kind # "no_candidates"
    THEN IF response[1].kind = "unnamed_reason"
         THEN AT_THIS_TIME
         ELSE FailedForReason(response[1].reason)
    ELSE NO_RESPONSE

\* generate_content_returns, with the failure of the last attempt raised
\* again instead of turned into a string
generate_content_returns_Reraise(r) ==
    /\ pc[r] = "generating"
    /\ \E answer \in {None} \cup {Some(c) : c \in Completions} :
        LET response == IF answer = None THEN gen[r].response ELSE answer
        IN  /\ gen' = [gen EXCEPT ![r].response = response]
            /\ last_answer' = [last_answer EXCEPT ![r] = <<answer>>]
            /\ IF answer # None /\ answer[1].kind = "STOP"
               THEN log_analysis_to_db(r, answer[1].content, stages[r])
               ELSE IF gen[r].attempt < max_retries - 1
               THEN /\ pc' = [pc EXCEPT ![r] = "sleeping"]
                    /\ UNCHANGED <<personalized_feedback, insert_calls, stages, outcome>>
               ELSE /\ Fails(r, UnexpectedErrorOutcome(request[r].via, "generation failed"))
                    /\ UNCHANGED <<personalized_feedback, insert_calls, stages>>
    /\ UNCHANGED <<pure_vars, metrics_vars, snippet_vars, process_vars, request, resume_text, analysis, generate_calls,
                   slept, insert_result>>

\* generate_content_returns, with `response` a global of the module instead
\* of a local of the call
generate_content_returns_SharedResponse(r) ==
    /\ pc[r] = "generating"
    /\ \E answer \in {None} \cup {Some(c) : c \in Completions} :
        LET response == IF answer = None THEN gen[r].response ELSE answer
        IN  /\ gen' = [q \in Requests |-> [gen[q] EXCEPT !.response = response]]
            /\ last_answer' = [last_answer EXCEPT ![r] = <<answer>>]
            /\ IF answer # None /\ answer[1].kind = "STOP"
               THEN log_analysis_to_db(r, answer[1].content, stages[r])
               ELSE IF gen[r].attempt < max_retries - 1
               THEN /\ pc' = [pc EXCEPT ![r] = "sleeping"]
                    /\ UNCHANGED <<personalized_feedback, insert_calls, stages, outcome>>
               ELSE log_analysis_to_db(r, FinalError(response), stages[r])
    /\ UNCHANGED <<pure_vars, metrics_vars, snippet_vars, process_vars, request, resume_text, analysis, generate_calls,
                   slept, insert_result>>

\* The generation call of the current attempt ends: `answer` is None when it
\* raised, a completion when it returned
generate_content_returns(r) ==
    /\ pc[r] = "generating"
    /\ \E answer \in {None} \cup {Some(c) : c \in Completions} :
        LET response == IF answer = None THEN gen[r].response ELSE answer
        IN  /\ gen' = [gen EXCEPT ![r].response = response]
            /\ last_answer' = [last_answer EXCEPT ![r] = <<answer>>]
            /\ IF answer # None /\ answer[1].kind = "STOP"
               THEN log_analysis_to_db(r, answer[1].content, stages[r])
               ELSE IF gen[r].attempt < max_retries - 1
               THEN /\ pc' = [pc EXCEPT ![r] = "sleeping"]
                    /\ UNCHANGED <<personalized_feedback, insert_calls, stages, outcome>>
               ELSE log_analysis_to_db(r, FinalError(response), stages[r])
    /\ UNCHANGED <<pure_vars, metrics_vars, snippet_vars, process_vars, request, resume_text, analysis, generate_calls,
                   slept, insert_result>>

\* asyncio.sleep(delay) ends: the delay doubles and the next attempt calls
\* the backend
sleep_returns(r) ==
    /\ pc[r] = "sleeping"
    /\ slept' = [slept EXCEPT ![r] = Append(@, gen[r].delay)]
    /\ gen' = [gen EXCEPT ![r].delay = NextDelay(@), ![r].attempt = @ + 1]
    /\ generate_calls' = [generate_calls EXCEPT ![r] = @ + 1]
    /\ pc' = [pc EXCEPT ![r] = "generating"]
    /\ UNCHANGED <<pure_vars, metrics_vars, snippet_vars, process_vars, request, resume_text, analysis, last_answer,
                   personalized_feedback, insert_calls, insert_result, stages, outcome>>

\* log_document of step 4; insert_one gives it an _id of its own.  The
\* wall-clock timestamp and analysis_duration_ms are left out.
LogDocument(r) ==
    [_id |-> r,
     file_name |-> request[r].filename,
     target_role |-> request[r].target_role,
     match_score |-> analysis[r].target_score,
     skills_found_count |-> Len(analysis[r].skills)]

AnalysisResponse(r) ==
    [fileName |-> request[r].filename,
     extractedText |-> extractedText(resume_text[r]),
     skillsFound |-> analysis[r].skills,
     roleMatches |-> analysis[r].role_matches,
     targetRoleAnalysis |-> analysis[r].target_role_analysis,
     experienceSummary |-> analysis[r].experience_summary,
     educationSummary |-> analysis[r].education_summary,
     personalizedFeedback |-> personalized_feedback[r][1]]

\* insert_one_returns, with the exception of insert_one let through
insert_one_returns_Propagating(r) ==
    /\ pc[r] = "inserting"
    /\ \E stored \in BOOLEAN :
        IF stored
        THEN /\ audit_log' = Append(audit_log, LogDocument(r))
             /\ insert_result' = [insert_result EXCEPT ![r] = "ok"]
             /\ stages' = [stages EXCEPT ![r] = @ \o <<"LOGGED", "RESPONDED">>]
             /\ outcome' = [outcome EXCEPT ![r] =
                    Returned(request[r].via, AnalysisResponse(r))]
             /\ pc' = [pc EXCEPT ![r] = "responded"]
        ELSE /\ insert_result' = [insert_result EXCEPT ![r] = "failed"]
             /\ Fails(r, UnexpectedErrorOutcome(request[r].via, "insert failed"))
             /\ UNCHANGED <<audit_log, stages>>
    /\ UNCHANGED <<pure_vars, metrics_vars, snippet_vars, GEMINI_API_KEY, nlp, db_client, request, resume_text, analysis,
                   gen, last_answer, personalized_feedback, generate_calls, slept>>
    /\ UNCHANGED insert_calls

\* insert_one_returns, with a failed insert tried again
insert_one_returns_Retry(r) ==
    /\ pc[r] = "inserting"
    /\ \E stored \in BOOLEAN :
        IF stored
        THEN /\ audit_log' = Append(audit_log, LogDocument(r))
             /\ insert_result' = [insert_result EXCEPT ![r] = "ok"]
             /\ stages' = [stages EXCEPT ![r] = @ \o <<"LOGGED", "RESPONDED">>]
             /\ outcome' = [outcome EXCEPT ![r] =
                    Returned(request[r].via, AnalysisResponse(r))]
             /\ pc' = [pc EXCEPT ![r] = "responded"]
             /\ UNCHANGED insert_calls
        ELSE /\ insert_result' = [insert_result EXCEPT ![r] = "failed"]
             /\ insert_calls[r] < 2
             /\ insert_calls' = [insert_calls EXCEPT ![r] = @ + 1]
             /\ UNCHANGED <<audit_log, stages, outcome, pc>>
    /\ UNCHANGED <<pure_vars, metrics_vars, snippet_vars, GEMINI_API_KEY, nlp, db_client, request, resume_text, analysis,
                   gen, last_answer, personalized_feedback, generate_calls, slept>>

\* insert_one ends: the document is stored, or an exception is raised, that
\* log_analysis_to_db logs and swallows; then step 5 of analyze_resume_file
\* builds the response and returns it
insert_one_returns(r) ==
    /\ pc[r] = "inserting"
    /\ \E stored \in BOOLEAN :
        IF stored
        THEN /\ audit_log' = Append(audit_log, LogDocument(r))
             /\ insert_result' = [insert_result EXCEPT ![r] = "ok"]
        ELSE /\ insert_result' = [insert_result EXCEPT ![r] = "failed"]
             /\ UNCHANGED audit_log
    /\ stages' = [stages EXCEPT ![r] = @ \o <<"LOGGED", "RESPONDED">>]
    /\ outcome' = [outcome EXCEPT ![r] = Returned(request[r].via, AnalysisResponse(r))]
    /\ pc' = [pc EXCEPT ![r] = "responded"]
    /\ UNCHANGED <<pure_vars, metrics_vars, snippet_vars, GEMINI_API_KEY, nlp, db_client, request, resume_text, analysis,
                   gen, last_answer, personalized_feedback, generate_calls, slept>>
    /\ UNCHANGED insert_calls

PureIdle ==
    /\ catalog = SKILL_CATEGORIES
    /\ text_in = ""
    /\ skills = <<>>
    /\ target_in = ""
    /\ role_matches = <<>>
    /\ target_analysis = None
    /\ called = {}

\* The metrics dict get_analysis_metrics starts from
DefaultMetrics ==
    [total_analyses |-> 0, avg_duration_ms |-> 0, avg_score |-> Rat(0, 1),
     role_breakdown |-> <<>>]

NoMetricsCall ==
    [pc |-> "idle", via |-> "", answer |-> "", seen |-> 0, outcome |-> NoOutcome]

NoSnippet == [text |-> "", extractedText |-> None]

RequestsIdle ==
    /\ metrics_call = NoMetricsCall
    /\ pc = [r \in Requests |-> "idle"]
    /\ request = [r \in Requests |-> NoRequest]
    /\ resume_text = [r \in Requests |-> ""]
    /\ analysis = [r \in Requests |-> NoAnalysis]
    /\ gen = [r \in Requests |-> NoGen]
    /\ last_answer = [r \in Requests |-> <<>>]
    /\ personalized_feedback = [r \in Requests |-> None]
    /\ generate_calls = [r \in Requests |-> 0]
    /\ slept = [r \in Requests |-> <<>>]
    /\ insert_calls = [r \in Requests |-> 0]
    /\ insert_result = [r \in Requests |-> "none"]
    /\ stages = [r \in Requests |-> <<>>]
    /\ outcome = [r \in Requests |-> NoOutcome]

\* The process after startup: the settings are read, the spaCy model is
\* loaded or not, the connection to MongoDB is made or not
Init ==
    /\ PureIdle
    /\ GEMINI_API_KEY \in ApiKeys
    /\ nlp \in BOOLEAN
    /\ db_client \in BOOLEAN
    /\ audit_log = <<>>
    /\ RequestsIdle
    /\ snippet = NoSnippet

Next ==
    \E r \in Requests :
        \/ analyze_resume(r)
        \/ upload_read_returns(r)
        \/ call_analyze_resume_file(r)
        \/ generate_content_returns(r)
        \/ sleep_returns(r)
        \/ insert_one_returns(r)

Spec == Init /\ [][Next]_vars

-----------------------------------------------------------------------------
(* One request alone: the same code of app/main.py and app/services.py, as *)
(* a relation between the locals of one coroutine before and after a step  *)
(* that runs it from one await to the next                                 *)

\* The locals of the coroutine of request r
Own(r) ==
    [pc |-> pc[r], request |-> request[r], resume_text |-> resume_text[r],
     analysis |-> analysis[r], gen |-> gen[r], last_answer |-> last_answer[r],
     personalized_feedback |-> personalized_feedback[r],
     generate_calls |-> generate_calls[r], slept |-> slept[r],
     insert_calls |-> insert_calls[r], insert_result |-> insert_result[r],
     stages |-> stages[r], outcome |-> outcome[r]]

\* log_document of step 4, of the coroutine `o` of request r
SoloLogDocument(r, o) ==
    [_id |-> r,
     file_name |-> o.request.filename,
     target_role |-> o.request.target_role,
     match_score |-> o.analysis.target_score,
     skills_found_count |-> Len(o.analysis.skills)]

\* response of step 6, of the coroutine `o`
SoloResponse(o) ==
    [fileName |-> o.request.filename,
     extractedText |-> extractedText(o.resume_text),
     skillsFound |-> o.analysis.skills,
     roleMatches |-> o.analysis.role_matches,
     targetRoleAnalysis |-> o.analysis.target_role_analysis,
     experienceSummary |-> o.analysis.experience_summary,
     educationSummary |-> o.analysis.education_summary,
     personalizedFeedback |-> o.personalized_feedback[1]]

\* get_personalized_feedback has returned: the coroutine awaits insert_one
SoloFeedbackObtained(o, feedback) ==
    [o EXCEPT !.personalized_feedback = Some(feedback),
              !.stages = Append(o.stages, "FEEDBACK_OBTAINED"),
              !.insert_calls = @ + 1,
              !.pc = "inserting"]

SoloFails(o, result) == [o EXCEPT !.outcome = result, !.pc = "failed"]

\* analyze_resume_file from its first statement to its first await
SoloAnalyzeResumeFile(o, o2) ==
    LET req == o.request
    IN  IF ~SupportedExtension(req.filename)
        THEN o2 = SoloFails([o EXCEPT !.stages = <<"RECEIVED">>],
                            ValueErrorOutcome(req.via, UNSUPPORTED))
        ELSE /\ o2.resume_text \in ExtractedTexts
             /\ LET read == [o EXCEPT !.resume_text = o2.resume_text]
                IN  IF Blank(o2.resume_text)
                    THEN o2 = SoloFails([read EXCEPT !.stages = <<"RECEIVED", "TEXT_EXTRACTED">>],
                                        ValueErrorOutcome(req.via, NO_TEXT))
                    ELSE LET scored == [read EXCEPT
                                 !.analysis = RunAnalyses(o2.resume_text, req.target_role),
                                 !.stages = <<"RECEIVED", "TEXT_EXTRACTED", "ANALYZED", "SCORED">>]
                         IN  IF CredentialMissing(GEMINI_API_KEY)
                             THEN o2 = SoloFeedbackObtained(scored, NOT_CONFIGURED)
                             ELSE \/ o2 = SoloFeedbackObtained(scored, COULD_NOT_CONFIGURE)
                                  \/ o2 = [scored EXCEPT
                                         !.gen = [attempt |-> 0, delay |-> initial_delay,
                                                  response |-> None],
                                         !.generate_calls = @ + 1,
                                         !.pc = "generating"]

\* The coroutine `o` of request r, alone in the process, runs to its next
\* await and stands as `o2`; log2 is the collection after the step
SoloStep(r, o, o2, log, log2) ==
    IF o.pc = "idle"
    THEN /\ log2 = log
         /\ \/ /\ o2.request \in {c \in RequestCases : c.via = "http"}
               /\ LET entered == [o EXCEPT !.request = o2.request]
                  IN  IF ~nlp
                      THEN o2 = SoloFails(entered,
                               HTTPException(500, "NLP model is not loaded on the server."))
                      ELSE IF ~db_client
                      THEN o2 = SoloFails(entered,
                               HTTPException(500, "Database connection is not available."))
                      ELSE o2 = [entered EXCEPT !.pc = "reading"]
            \/ /\ o2.request \in {c \in RequestCases : c.via = "direct"}
               /\ SoloAnalyzeResumeFile([o EXCEPT !.request = o2.request], o2)
    ELSE IF o.pc = "reading"
    THEN /\ log2 = log
         /\ \/ o2 = SoloFails(o, HTTPException(400, "Error reading file"))
            \/ IF ~SupportedExtension(o.request.filename)
               THEN o2 = SoloFails(o, HTTPException(400, INVALID_TYPE))
               ELSE SoloAnalyzeResumeFile(o, o2)
    ELSE IF o.pc = "generating"
    THEN /\ log2 = log
         /\ \E answer \in {None} \cup {Some(c) : c \in Completions} :
               LET response == IF answer = None THEN o.gen.response ELSE answer
                   answered == [o EXCEPT !.gen.response = response,
                                         !.last_answer = <<answer>>]
               IN  IF answer # None /\ answer[1].kind = "STOP"
                   THEN o2 = SoloFeedbackObtained(answered, answer[1].content)
                   ELSE IF o.gen.attempt < max_retries - 1
                   THEN o2 = [answered EXCEPT !.pc = "sleeping"]
                   ELSE o2 = SoloFeedbackObtained(answered, FinalError(response))
    ELSE IF o.pc = "sleeping"
    THEN /\ log2 = log
         /\ o2 = [o EXCEPT !.slept = Append(@, o.gen.delay),
                           !.gen.delay = NextDelay(@),
                           !.gen.attempt = @ + 1,
                           !.generate_calls = @ + 1,
                           !.pc = "generating"]
    ELSE IF o.pc = "inserting"
    THEN LET responded == [o EXCEPT
                 !.stages = @ \o <<"LOGGED", "RESPONDED">>,
                 !.outcome = Returned(o.request.via, SoloResponse(o)),
                 !.pc = "responded"]
         IN  \/ /\ log2 = Append(log, SoloLogDocument(r, o))
                /\ o2 = [responded EXCEPT !.insert_result = "ok"]
             \/ /\ log2 = log
                /\ o2 = [responded EXCEPT !.insert_result = "failed"]
    ELSE FALSE

-----------------------------------------------------------------------------
(* Direct calls of the analysis functions, as tests/test_services.py makes *)
(* them: on a document, or on a list of Skill a caller has built.          *)

\* A catalog in which keywords collide across categories and in case; the
\* shipped catalog declares every keyword once.
CollidingCatalog == <<
    <<"Programming Languages", <<"python", "R", "sql">> >>,
    <<"Data Science & ML", <<"r", "pandas", "python">> >>,
    <<"Database Systems", <<"SQL", "mysql", "sql">> >>
>>

Catalogs == {SKILL_CATEGORIES, CollidingCatalog}

Keywords(cat) == {CatalogItems(cat)[k][2] : k \in 1..Len(CatalogItems(cat))}

SampleDocuments ==
    {"", " \n ", sample_text_swe, sample_text_ds,
     "python Python PYTHONS", "JavaScript", "R, SQL and mysql", "sqls: r/python",
     "C++ and C#", "asp.net core", "my_python", "rust2", "node.js, ci/cd: k8s"}

\* Every keyword of the shipped catalog alone, and followed by an s
KeywordDocuments ==
    UNION {{k, k \o "s"} : k \in Keywords(SKILL_CATEGORIES)}

Documents == SampleDocuments \cup KeywordDocuments

\* The longest list of Skill a caller builds
MaxSkills == 3

PoolSkills ==
    {Skill("python", "Programming Languages"), Skill("SQL", "Programming Languages"),
     Skill("git", "Project Management & Tools"), Skill("Docker", "DevOps & Cloud"),
     Skill("aws", "DevOps & Cloud"), Skill("api", "Other"), Skill("cobol", "Other")}

SkillLists == UNION {[1..n -> PoolSkills] : n \in 0..MaxSkills}

TargetRoles == RoleNames \cup {"Galactic Emperor", "software engineer", ""}

PureInit ==
    /\ catalog \in Catalogs
    /\ text_in = ""
    /\ skills = <<>>
    /\ target_in = ""
    /\ role_matches = <<>>
    /\ target_analysis = None
    /\ called = {}
    /\ GEMINI_API_KEY = ""
    /\ nlp = TRUE
    /\ db_client = TRUE
    /\ audit_log = <<>>
    /\ RequestsIdle
    /\ snippet = NoSnippet

CallExtractSkills ==
    /\ called = {}
    /\ \E text \in Documents :
        /\ text_in' = text
        /\ skills' = extract_skills(text)
        /\ called' = {"extract_skills"}
        /\ role_matches' = <<>>
        /\ target_analysis' = None
        /\ UNCHANGED <<catalog, target_in, process_vars, request_vars, metrics_vars, snippet_vars>>

BuildSkills ==
    /\ called = {}
    /\ \E skill_list \in SkillLists :
        /\ skills' = skill_list
        /\ text_in' = ""
        /\ called' = {"caller"}
        /\ role_matches' = <<>>
        /\ target_analysis' = None
        /\ UNCHANGED <<catalog, target_in, process_vars, request_vars, metrics_vars, snippet_vars>>

CallSuggestRoleMatches ==
    /\ called # {}
    /\ "suggest_role_matches" \notin called
    /\ role_matches' = suggest_role_matches(skills)
    /\ called' = called \cup {"suggest_role_matches"}
    /\ UNCHANGED <<catalog, text_in, skills, target_in, target_analysis, process_vars, request_vars, metrics_vars, snippet_vars>>

CallAnalyzeTargetRole ==
    /\ called # {}
    /\ "analyze_target_role" \notin called
    /\ \E target_role \in TargetRoles :
        /\ target_in' = target_role
        /\ target_analysis' = analyze_target_role(skills, target_role)
    /\ called' = called \cup {"analyze_target_role"}
    /\ UNCHANGED <<catalog, text_in, skills, role_matches, process_vars, request_vars, metrics_vars, snippet_vars>>

PureNext ==
    \/ CallExtractSkills
    \/ BuildSkills
    \/ CallSuggestRoleMatches
    \/ CallAnalyzeTargetRole

SpecPure == PureInit /\ [][PureNext]_vars

-----------------------------------------------------------------------------
(* The metrics: app/main.py get_metrics, app/db_service.py                 *)
(* get_analysis_metrics, over the documents completed analyses have logged *)

\* The most documents the log holds when the metrics are asked for
MaxRecords == 2

\* What a completed analysis logs: its target role and match score
LoggedRoles == {"Software Engineer", "Data Scientist", "Galactic Emperor"}
LoggedScores == {Rat(0, 1), Rat(140, 3)}

\* The averages $avg gives for analysis_duration_ms; the durations
\* themselves are not kept in the documents of the model
DurationAverages == {0, 125}

\* The sum of the match_score fields of the documents k..Len(log)
RECURSIVE SumScores(_, _)
SumScores(log, k) ==
    IF k > Len(log) THEN Rat(0, 1)
    ELSE RatAdd(log[k].match_score, SumScores(log, k + 1))

\* The "overview" facet: $group with _id None gives no document for an empty
\* collection, one document otherwise
Overview(log, avg_duration) ==
    IF log = <<>> THEN <<>>
    ELSE <<[total_analyses |-> Len(log),
            avg_duration_ms |-> avg_duration,
            avg_score |-> RatScale(SumScores(log, 1), 1, Len(log))]>>

\* The groups of the "role_breakdown" facet
RoleGroups(log) ==
    {[_id |-> role, count |-> Cardinality({k \in 1..Len(log) : log[k].target_role = role})] :
        role \in {log[k].target_role : k \in 1..Len(log)}}

\* The orders $sort {count: -1} may give the groups: groups of equal count
\* come in any order
RoleBreakdowns(log) ==
    LET groups == RoleGroups(log)
        n == Cardinality(groups)
    IN  {order \in [1..n -> groups] :
            /\ \A i, j \in 1..n : i # j => order[i] # order[j]
            /\ \A i, j \in 1..n : i < j => order[i].count >= order[j].count}

\* get_analysis_metrics with the exception of the aggregation let through
get_analysis_metrics_Reraise(answer, overview, breakdown) ==
    IF answer = "raised" THEN None
    ELSE IF answer = "no_document" THEN Some(DefaultMetrics)
    ELSE Some([total_analyses |-> IF overview # <<>> THEN overview[1].total_analyses ELSE 0,
               avg_duration_ms |-> IF overview # <<>> THEN overview[1].avg_duration_ms ELSE 0,
               avg_score |-> IF overview # <<>> THEN overview[1].avg_score ELSE Rat(0, 1),
               role_breakdown |-> breakdown])

\* get_analysis_metrics once the aggregation has ended: it raised, it gave
\* no document, or it gave the document of the two facets.  The value is
\* Some(metrics); None stands for an exception leaving the function.
get_analysis_metrics(answer, overview, breakdown) ==
    IF answer = "raised" THEN Some(DefaultMetrics)
    ELSE IF answer = "no_document" THEN Some(DefaultMetrics)
    ELSE Some([total_analyses |-> IF overview # <<>> THEN overview[1].total_analyses ELSE 0,
               avg_duration_ms |-> IF overview # <<>> THEN overview[1].avg_duration_ms ELSE 0,
               avg_score |-> IF overview # <<>> THEN overview[1].avg_score ELSE Rat(0, 1),
               role_breakdown |-> IF breakdown # <<>> THEN breakdown ELSE <<>>])

\* What the caller of the metrics gets from the value of get_analysis_metrics
MetricsOutcome(via, result) ==
    IF result = None
    THEN IF via = "http"
         THEN HTTPException(500, "Could not retrieve metrics.")
         ELSE [kind |-> "Exception", status |-> 0, detail |-> "aggregation failed",
               body |-> None]
    ELSE [kind |-> "metrics", status |-> IF via = "http" THEN 200 ELSE 0,
          detail |-> "", body |-> result]

\* A completed analysis stores its document
insert_one_stored ==
    /\ db_client
    /\ Len(audit_log) < MaxRecords
    /\ \E role \in LoggedRoles, score \in LoggedScores :
        audit_log' = Append(audit_log,
            [_id |-> "a" \o ToString(Len(audit_log) + 1),
             file_name |-> "cv.pdf",
             target_role |-> role,
             match_score |-> IF role \in RoleNames THEN score ELSE Rat(0, 1),
             skills_found_count |-> 4])
    /\ UNCHANGED <<pure_vars, GEMINI_API_KEY, nlp, db_client, request_vars, metrics_vars, snippet_vars>>

\* main.get_metrics up to the await of the aggregation
get_metrics ==
    /\ metrics_call.pc = "idle"
    /\ IF ~db_client
       THEN metrics_call' = [metrics_call EXCEPT
                !.pc = "done", !.via = "http",
                !.outcome = HTTPException(500, "Database connection is not available.")]
       ELSE metrics_call' = [metrics_call EXCEPT !.pc = "aggregating", !.via = "http"]
    /\ UNCHANGED <<pure_vars, process_vars, request_vars, snippet_vars>>

\* A call of get_analysis_metrics by another caller than the endpoint, with
\* the client the process has: with None, client[DATABASE_NAME] raises
\* inside the try
call_get_analysis_metrics ==
    /\ metrics_call.pc = "idle"
    /\ IF ~db_client
       THEN metrics_call' = [metrics_call EXCEPT
                !.pc = "done", !.via = "direct", !.answer = "raised",
                !.seen = Len(audit_log),
                !.outcome = MetricsOutcome("direct",
                                get_analysis_metrics("raised", <<>>, <<>>))]
       ELSE metrics_call' = [metrics_call EXCEPT !.pc = "aggregating", !.via = "direct"]
    /\ UNCHANGED <<pure_vars, process_vars, request_vars, snippet_vars>>

\* collection.aggregate(pipeline).to_list(1) ends
aggregate_returns ==
    /\ metrics_call.pc = "aggregating"
    /\ \E answer \in {"raised", "no_document", "document"},
          avg_duration \in DurationAverages,
          breakdown \in RoleBreakdowns(audit_log) :
        metrics_call' = [metrics_call EXCEPT
            !.pc = "done", !.answer = answer, !.seen = Len(audit_log),
            !.outcome = MetricsOutcome(metrics_call.via,
                            get_analysis_metrics(answer, Overview(audit_log, avg_duration),
                                                 breakdown))]
    /\ UNCHANGED <<pure_vars, process_vars, request_vars, snippet_vars>>

MetricsInit ==
    /\ PureIdle
    /\ GEMINI_API_KEY = "a-key"
    /\ nlp = TRUE
    /\ db_client \in BOOLEAN
    /\ audit_log = <<>>
    /\ RequestsIdle
    /\ snippet = NoSnippet

MetricsNext ==
    \/ insert_one_stored
    \/ get_metrics
    \/ call_get_analysis_metrics
    \/ aggregate_returns

SpecMetrics == MetricsInit /\ [][MetricsNext]_vars

-----------------------------------------------------------------------------
(* The snippet of the response: app/services.py analyze_resume_file, step  *)
(* 6, on texts about as long as the cut                                    *)

\* s repeated k times
RECURSIVE Repeated(_, _)
Repeated(s, k) ==
    IF k = 0 THEN ""
    ELSE LET half == Repeated(s, k \div 2)
         IN  IF k % 2 = 0 THEN half \o half ELSE half \o half \o s

\* The text of n characters that repeats a pattern
Cycled(pattern, n) == SubSeq(Repeated(pattern, n \div Len(pattern) + 1), 1, n)

\* How far past the cut the texts go
MaxOver == 10

TextLengths == (0..3) \cup ((TruncateAt - 10)..(TruncateAt + MaxOver)) \cup {2 * TruncateAt + 1}

TextPatterns == {"Python, Java. ", ".", "abcdefg\n"}

ResponseTexts == {Cycled(pattern, n) : pattern \in TextPatterns, n \in TextLengths}

SnippetInit ==
    /\ PureIdle
    /\ GEMINI_API_KEY = "a-key"
    /\ nlp = TRUE
    /\ db_client = TRUE
    /\ audit_log = <<>>
    /\ RequestsIdle
    /\ snippet \in {[text |-> text, extractedText |-> None] : text \in ResponseTexts}

\* Step 6 of analyze_resume_file makes the extractedText of its response
build_response ==
    /\ snippet.extractedText = None
    /\ snippet' = [snippet EXCEPT !.extractedText = Some(extractedText(snippet.text))]
    /\ UNCHANGED <<pure_vars, process_vars, request_vars, metrics_vars>>

SnippetNext == build_response

SpecSnippet == SnippetInit /\ [][SnippetNext]_vars

-----------------------------------------------------------------------------
(* Properties of the analysis functions                                    *)

\* The categories of the loaded catalog that declare a keyword whose
\* lowercased form is n, and the first of them in declaration order
DeclaringCategories(n) ==
    {catalog[c][1] : c \in {c \in 1..Len(catalog) :
        \E k \in 1..Len(catalog[c][2]) : lower(catalog[c][2][k]) = n}}

FirstDeclaringCategory(n) ==
    catalog[CHOOSE c \in 1..Len(catalog) :
        /\ \E k \in 1..Len(catalog[c][2]) : lower(catalog[c][2][k]) = n
        /\ \A b \in 1..(c - 1) : \A k \in 1..Len(catalog[b][2]) : lower(catalog[b][2][k]) # n][1]

\* C8: the result of extract_skills holds at most one finding per lowercased
\* skill name, and each finding carries the category that declares its
\* keyword first in the catalog.
C8_OneFindingPerSkill ==
    "extract_skills" \in called =>
        /\ \A i, j \in 1..Len(skills) :
               i # j => lower(skills[i].name) # lower(skills[j].name)
        /\ \A i \in 1..Len(skills) :
               skills[i].category = FirstDeclaringCategory(lower(skills[i].name))

\* extract_skills has found a keyword that two categories declare
C8_Witness ==
    /\ "extract_skills" \in called
    /\ \E i \in 1..Len(skills) : Cardinality(DeclaringCategories(lower(skills[i].name))) >= 2

RoleIndex(role) == CHOOSE i \in 1..Len(JOB_ROLES) : JOB_ROLES[i].role = role

\* C9: suggest_role_matches returns one RoleMatch per role of the catalog,
\* every score in [0,100], ordered by score descending, roles of equal score
\* in the order the catalog declares them.
C9_RoleMatchesOrdered ==
    "suggest_role_matches" \in called =>
        /\ Len(role_matches) = Len(JOB_ROLES)
        /\ \A r \in RoleNames :
               Cardinality({k \in 1..Len(role_matches) : role_matches[k].role = r}) = 1
        /\ \A k \in 1..Len(role_matches) :
               /\ ~RatLess(role_matches[k].score, Rat(0, 1))
               /\ ~RatLess(Rat(100, 1), role_matches[k].score)
        /\ \A k \in 1..(Len(role_matches) - 1) :
               ~RatLess(role_matches[k].score, role_matches[k + 1].score)
        /\ \A k, m \in 1..Len(role_matches) :
               (k < m /\ RatEq(role_matches[k].score, role_matches[m].score))
                   => RoleIndex(role_matches[k].role) < RoleIndex(role_matches[m].role)

\* suggest_role_matches has returned two roles of equal, non-zero score and
\* two roles of different scores
C9_Witness ==
    /\ "suggest_role_matches" \in called
    /\ \E k \in 1..(Len(role_matches) - 1) :
           /\ RatEq(role_matches[k].score, role_matches[k + 1].score)
           /\ RatLess(Rat(0, 1), role_matches[k].score)
    /\ \E k \in 1..(Len(role_matches) - 1) :
           RatLess(role_matches[k + 1].score, role_matches[k].score)

\* C10: analyze_target_role returns None exactly when the target role is no
\* key of JOB_ROLES, and for a key a breakdown whose role is the target role.
C10_NullIffUnknownRole ==
    "analyze_target_role" \in called =>
        /\ (target_analysis = None) <=> (target_in \notin RoleNames)
        /\ target_in \in RoleNames =>
               /\ Len(target_analysis) = 1
               /\ target_analysis[1].role = target_in

\* analyze_target_role has returned None for an unknown role and a non-empty
\* list of skills
C10_Witness ==
    /\ "analyze_target_role" \in called
    /\ target_in \notin RoleNames
    /\ skills # <<>>
    /\ target_analysis = None

\* The strings of a sequence ascend strictly in the order of str
IsAscending(seq) == \A i, j \in 1..Len(seq) : i < j => StrLess(seq[i], seq[j])

\* The lowercased names of the skills given to the role functions
LoweredNames == {lower(skills[i].name) : i \in 1..Len(skills)}

\* C11: for a role of the catalog with required set R and good-to-have set G
\* and the lowercased names F of the skills given, analyze_target_role
\* returns required_found = F \cap R, required_missing = R \ F,
\* good_to_have_found = F \cap G, good_to_have_missing = G \ F, each as a
\* sorted list without repetition; found and missing are disjoint and make
\* up R (respectively G), and a name of F outside R \cup G is in no list.
C11_FoundMissingBreakdown ==
    ("analyze_target_role" \in called /\ target_in \in RoleNames) =>
        LET b == target_analysis[1]
            F == LoweredNames
            R == Range(RoleEntry(target_in).required_skills)
            G == Range(RoleEntry(target_in).good_to_have)
        IN  /\ Range(b.required_found) = F \cap R
            /\ Range(b.required_missing) = R \ F
            /\ Range(b.good_to_have_found) = F \cap G
            /\ Range(b.good_to_have_missing) = G \ F
            /\ IsAscending(b.required_found)
            /\ IsAscending(b.required_missing)
            /\ IsAscending(b.good_to_have_found)
            /\ IsAscending(b.good_to_have_missing)
            /\ Range(b.required_found) \cap Range(b.required_missing) = {}
            /\ Range(b.required_found) \cup Range(b.required_missing) = R
            /\ Range(b.good_to_have_found) \cap Range(b.good_to_have_missing) = {}
            /\ Range(b.good_to_have_found) \cup Range(b.good_to_have_missing) = G
            /\ \A f \in F \ (R \cup G) :
                   f \notin (Range(b.required_found) \cup Range(b.required_missing)
                             \cup Range(b.good_to_have_found)
                             \cup Range(b.good_to_have_missing))

\* analyze_target_role has answered for a catalog role and skills of which
\* one, named in upper case, is required, one is good to have and one is
\* in neither set
C11_Witness ==
    /\ "analyze_target_role" \in called
    /\ target_in = "Software Engineer"
    /\ target_analysis # None
    /\ target_analysis[1].required_found = <<"sql">>
    /\ target_analysis[1].good_to_have_found = <<"docker">>
    /\ Len(target_analysis[1].required_missing) >= 2
    /\ "cobol" \in LoweredNames
    /\ \E i \in 1..Len(skills) : skills[i].name = "SQL"

\* The keywords of the shipped catalog
ShippedKeywords == Keywords(SKILL_CATEGORIES)

\* The lowercased keyword occurs in the lowercased text, at any place
Occurs(keyword_lower, text_lower) ==
    \E i \in 1..(Len(text_lower) - Len(keyword_lower) + 1) :
        SubSeq(text_lower, i, i + Len(keyword_lower) - 1) = keyword_lower

\* C12: with the shipped catalog, a document that is exactly a keyword, or
\* that keyword followed by an s, makes extract_skills return a finding
\* named by the keyword, whatever characters the keyword is made of; and a
\* document in which no keyword of a category occurs yields no finding of
\* that category.
C12_EveryKeywordDetected ==
    ("extract_skills" \in called /\ catalog = SKILL_CATEGORIES) =>
        /\ \A k \in ShippedKeywords :
               text_in \in {k, k \o "s"} => \E i \in 1..Len(skills) : skills[i].name = k
        /\ LET text_lower == lower(text_in)
           IN  \A c \in 1..Len(SKILL_CATEGORIES) :
                   (\A j \in 1..Len(SKILL_CATEGORIES[c][2]) :
                        ~Occurs(lower(SKILL_CATEGORIES[c][2][j]), text_lower))
                   => \A i \in 1..Len(skills) : skills[i].category # SKILL_CATEGORIES[c][1]

\* extract_skills was given the document "c++" and has found nothing
C12_Witness ==
    /\ "extract_skills" \in called
    /\ catalog = SKILL_CATEGORIES
    /\ text_in = "c++"
    /\ skills = <<>>

\* get_analysis_metrics has been called and has ended
MetricsEnded == metrics_call.pc = "done" /\ metrics_call.answer # ""

\* C13: when get_analysis_metrics has run on a log without a document, or
\* its aggregation has failed, it has returned total_analyses = 0,
\* avg_duration_ms = 0, avg_score = 0 and an empty role breakdown, and the
\* caller has got these, no error.
C13_MetricsDefaults ==
    (MetricsEnded /\ (metrics_call.seen = 0 \/ metrics_call.answer = "raised")) =>
        /\ metrics_call.outcome.kind = "metrics"
        /\ metrics_call.outcome.body = Some(DefaultMetrics)
        /\ metrics_call.outcome.body[1].total_analyses = 0
        /\ metrics_call.outcome.body[1].avg_duration_ms = 0
        /\ RatEq(metrics_call.outcome.body[1].avg_score, Rat(0, 1))
        /\ metrics_call.outcome.body[1].role_breakdown = <<>>
        /\ metrics_call.via = "http" => metrics_call.outcome.status = 200

\* The endpoint has answered 200 with the defaults: the aggregation gave its
\* document for an empty log
C13_Witness ==
    /\ MetricsEnded
    /\ metrics_call.via = "http"
    /\ metrics_call.answer = "document"
    /\ metrics_call.seen = 0
    /\ metrics_call.outcome.status = 200
    /\ metrics_call.outcome.body = Some(DefaultMetrics)

\* The characters of s from i on, at most n of them, equal those of t
SameCharacters(s, t, n) == \A i \in 1..n : SubSeq(s, i, i) = SubSeq(t, i, i)

\* C14: the extractedText of a response is the first 2000 characters of
\* the text followed by "...": a text of at most 2000 characters is there in
\* full before the marker, and the field is never longer than 2003
\* characters.
C14_SnippetTruncated ==
    snippet.extractedText # None =>
        LET text == snippet.text
            field == snippet.extractedText[1]
            kept == IF Len(text) < TruncateAt THEN Len(text) ELSE TruncateAt
        IN  /\ Len(field) = kept + 3
            /\ SameCharacters(field, text, kept)
            /\ SubSeq(field, kept + 1, kept + 3) = "..."
            /\ Len(field) <= TruncateAt + 3
            /\ Len(text) <= TruncateAt => field = text \o "..."

C14_Witness ==
    /\ snippet.extractedText # None
    /\ Len(snippet.text) > TruncateAt
    /\ Len(snippet.extractedText[1]) = TruncateAt + 3
    /\ SubSeq(snippet.text, TruncateAt + 1, TruncateAt + 1) # "."

\* The score suggest_role_matches gave a role
RoleMatchScore(matches, role) ==
    LET k == CHOOSE k \in 1..Len(matches) : matches[k].role = role
    IN  matches[k].score

BothScored ==
    /\ {"suggest_role_matches", "analyze_target_role"} \subseteq called
    /\ target_analysis # None

\* C16: for every list of skills and every role of the catalog, the score
\* of analyze_target_role is the score of the role's RoleMatch in
\* suggest_role_matches for the same list.
C16_SameScore ==
    BothScored =>
        RatEq(target_analysis[1].score, RoleMatchScore(role_matches, target_in))

\* The two scores differ by the rounding only
RoundedScoresAgree ==
    BothScored =>
        RatEq(round2(target_analysis[1].score), RoleMatchScore(role_matches, target_in))

C16_Witness ==
    /\ BothScored
    /\ ~RatEq(target_analysis[1].score, RoleMatchScore(role_matches, target_in))
    /\ RatEq(round2(target_analysis[1].score), RoleMatchScore(role_matches, target_in))

-----------------------------------------------------------------------------
(* Properties of the analysis of an upload, under Spec                     *)

\* get_personalized_feedback has returned to request r
FeedbackReturned(r) == personalized_feedback[r] # None

\* The latest generation call of r returned a completion whose text is readable
LastAttemptSucceeded(r) ==
    /\ last_answer[r] # <<>>
    /\ last_answer[r][1] # None
    /\ last_answer[r][1][1].kind = "STOP"

\* get_personalized_feedback entered its retry loop for r and has returned
\* without a readable completion: every attempt has failed
EveryAttemptFailed(r) ==
    /\ FeedbackReturned(r)
    /\ generate_calls[r] > 0
    /\ ~LastAttemptSucceeded(r)

\* The last of the max_retries generation calls of r has ended without a
\* readable completion
RetriesExhausted(r) ==
    /\ generate_calls[r] = max_retries
    /\ pc[r] # "generating"
    /\ ~LastAttemptSucceeded(r)

\* The strings the retry loop returns after its last failure
GenerationErrors ==
    {NO_RESPONSE, AT_THIS_TIME} \cup {FailedForReason(reason) : reason \in FinishReasons}

\* The audit log holds a record of request r
Recorded(r) == \E k \in 1..Len(audit_log) : audit_log[k]._id = r

IsPrefix(s, t) == Len(s) <= Len(t) /\ SubSeq(t, 1, Len(s)) = s

\* C1: with a credential that is set and that genai.configure accepts, once
\* every generation attempt of a request has failed, exactly max_retries = 3
\* attempts were made, the waits were 1 then 2 (3 in total, none after the
\* third failure), and the function returned one of its error strings: the
\* request goes on to the audit insert instead of ending with an exception.
\* While the loop runs, the waits completed are a prefix of <<1, 2>> and one
\* less than the calls made.
C1_ThreeAttemptsThenErrorString ==
    \A r \in Requests :
        /\ generate_calls[r] <= max_retries
        /\ IsPrefix(slept[r], <<1, 2>>)
        /\ generate_calls[r] > 0 => Len(slept[r]) = generate_calls[r] - 1
        /\ EveryAttemptFailed(r) =>
              /\ generate_calls[r] = 3
              /\ slept[r] = <<1, 2>>
              /\ personalized_feedback[r][1] \in GenerationErrors
              /\ pc[r] \in {"inserting", "responded"}
              /\ outcome[r].kind \in {"none", "AnalysisResponse"}
        /\ RetriesExhausted(r) => EveryAttemptFailed(r)

C1_Witness ==
    \E r \in Requests :
        /\ EveryAttemptFailed(r)
        /\ slept[r] = <<1, 2>>
        /\ last_answer[r] = <<None>>
        /\ personalized_feedback[r] = Some(NO_RESPONSE)

\* C2: when the credential is empty or the placeholder, no request ever makes
\* a generation call or a backoff wait, and get_personalized_feedback returns
\* the fixed "not configured" string, whether the gap data is that of a known
\* target role or empty.
C2_UnconfiguredShortCircuits ==
    (GEMINI_API_KEY = "" \/ GEMINI_API_KEY = PLACEHOLDER_KEY) =>
        \A r \in Requests :
            /\ generate_calls[r] = 0
            /\ slept[r] = <<>>
            /\ last_answer[r] = <<>>
            /\ pc[r] \notin {"generating", "sleeping"}
            /\ FeedbackReturned(r) => personalized_feedback[r] = Some(NOT_CONFIGURED)

C2_Witness ==
    /\ GEMINI_API_KEY = PLACEHOLDER_KEY
    /\ \E r1, r2 \in Requests :
        /\ personalized_feedback[r1] = Some(NOT_CONFIGURED)
        /\ analysis[r1].feedback_data # None
        /\ personalized_feedback[r2] = Some(NOT_CONFIGURED)
        /\ analysis[r2].feedback_data = None

\* analyze_resume_file was entered for r with a file name that ends neither
\* in .pdf nor in .docx
UnsupportedUpload(r) == stages[r] # <<>> /\ ~SupportedExtension(request[r].filename)

\* analyze_resume_file extracted a blank text for r
BlankUpload(r) == Len(stages[r]) >= 2 /\ strip(resume_text[r]) = ""

\* C3: a request whose file name analyze_resume_file does not support, or
\* whose extracted text is blank, ends with a ValueError carrying the
\* message of the case (a 400 with that detail through the endpoint), and
\* nothing later runs: no analysis, no generation call, no feedback, no
\* insert, no audit record.
C3_InputErrorStopsPipeline ==
    \A r \in Requests :
        (UnsupportedUpload(r) \/ BlankUpload(r)) =>
            /\ pc[r] = "failed"
            /\ outcome[r] = ValueErrorOutcome(request[r].via,
                                IF UnsupportedUpload(r) THEN UNSUPPORTED ELSE NO_TEXT)
            /\ request[r].via = "http" => outcome[r].status = 400
            /\ analysis[r] = NoAnalysis
            /\ generate_calls[r] = 0
            /\ personalized_feedback[r] = None
            /\ insert_calls[r] = 0
            /\ ~Recorded(r)
            /\ ~(\E k \in 1..Len(stages[r]) : stages[r][k] \in {"ANALYZED", "SCORED",
                    "FEEDBACK_OBTAINED", "LOGGED", "RESPONDED"})

C3_Witness ==
    \E r1, r2 \in Requests :
        /\ UnsupportedUpload(r1)
        /\ outcome[r1] = RaisedValueError(UNSUPPORTED)
        /\ BlankUpload(r2)
        /\ resume_text[r2] = " \n "
        /\ outcome[r2] = HTTPException(400, NO_TEXT)

\* C4: a request whose insert failed ends like one whose insert succeeded:
\* it returns an AnalysisResponse, never an error, and two requests with the
\* same upload, extracted text and feedback return the same response
\* whatever their inserts did.
C4_InsertFailureInvisible ==
    /\ \A r \in Requests :
        insert_result[r] # "none" =>
            /\ pc[r] = "responded"
            /\ outcome[r].kind = "AnalysisResponse"
            /\ outcome[r].status \in {0, 200}
    /\ \A r1, r2 \in Requests :
        /\ pc[r1] = "responded"
        /\ pc[r2] = "responded"
        /\ request[r1] = request[r2]
        /\ resume_text[r1] = resume_text[r2]
        /\ personalized_feedback[r1] = personalized_feedback[r2]
        => outcome[r1] = outcome[r2]

C4_Witness ==
    \E r1, r2 \in Requests :
        /\ insert_result[r1] = "failed"
        /\ insert_result[r2] = "ok"
        /\ request[r1] = request[r2]
        /\ personalized_feedback[r1] = personalized_feedback[r2]
        /\ outcome[r1].kind = "AnalysisResponse"
        /\ outcome[r1] = outcome[r2]
        /\ ~Recorded(r1)
        /\ Recorded(r2)

\* C5: a request whose generation attempts have all failed never ends with
\* an error; the audit insert is attempted for it, and once that has ended
\* the request has returned an AnalysisResponse (a 200 through the endpoint)
\* whose personalizedFeedback is the error string of the retry loop, and its
\* record is in the audit log unless the insert itself failed.
C5_GenerationFailureStillSucceeds ==
    \A r \in Requests :
        RetriesExhausted(r) =>
            /\ pc[r] \in {"inserting", "responded"}
            /\ insert_calls[r] = 1
            /\ pc[r] = "responded" =>
                /\ outcome[r].kind = "AnalysisResponse"
                /\ request[r].via = "http" => outcome[r].status = 200
                /\ outcome[r].body[1].personalizedFeedback = FinalError(gen[r].response)
                /\ outcome[r].body[1].personalizedFeedback \in GenerationErrors
                /\ outcome[r].body[1].skillsFound = analysis[r].skills
                /\ outcome[r].body[1].roleMatches = analysis[r].role_matches
                /\ insert_result[r] = "ok" => Recorded(r)

C5_Witness ==
    \E r \in Requests :
        /\ RetriesExhausted(r)
        /\ request[r].via = "http"
        /\ outcome[r].status = 200
        /\ outcome[r].body[1].personalizedFeedback = FailedForReason("SAFETY")
        /\ Recorded(r)

\* The stages of r are the first ones of StageOrder, in its order
StagesInOrder(r) == IsPrefix(stages[r], StageOrder)

HasStage(r, stage) == \E k \in 1..Len(stages[r]) : stages[r][k] = stage

\* C6: the stages a request has passed are always the first ones of
\* RECEIVED, TEXT_EXTRACTED, ANALYZED, SCORED, FEEDBACK_OBTAINED, LOGGED,
\* RESPONDED in that order, and a step only adds stages; the insert is
\* attempted at most once, exactly when feedback generation has returned,
\* after which no generation call or wait is made; a response is returned
\* only once the insert attempt has ended.
C6_StageOrderInv ==
    \A r \in Requests :
        /\ StagesInOrder(r)
        /\ insert_calls[r] <= 1
        /\ insert_calls[r] = 1 <=> FeedbackReturned(r)
        /\ FeedbackReturned(r) <=> HasStage(r, "FEEDBACK_OBTAINED")
        /\ FeedbackReturned(r) => pc[r] \in {"inserting", "responded"}
        /\ HasStage(r, "LOGGED") <=> insert_result[r] # "none"
        /\ outcome[r].kind = "AnalysisResponse" <=> HasStage(r, "RESPONDED")
        /\ HasStage(r, "RESPONDED") => insert_calls[r] = 1 /\ insert_result[r] # "none"

C6_StageOrderStep ==
    \A r \in Requests :
        /\ IsPrefix(stages[r], stages'[r])
        /\ FeedbackReturned(r) =>
              /\ generate_calls'[r] = generate_calls[r]
              /\ slept'[r] = slept[r]
              /\ personalized_feedback'[r] = personalized_feedback[r]
              /\ insert_calls'[r] = insert_calls[r]

C6_LinearStages == [](C6_StageOrderInv) /\ [][C6_StageOrderStep]_vars

C6_Witness ==
    \E r \in Requests :
        /\ stages[r] = StageOrder
        /\ slept[r] = <<1, 2>>
        /\ LastAttemptSucceeded(r)
        /\ insert_calls[r] = 1

Finished(r) == pc[r] \in {"failed", "responded"}

\* The documents of the collection that request r stored
RecordsOf(r) == {k \in 1..Len(audit_log) : audit_log[k]._id = r}

\* The text of the upload of request r was extracted: the analysis went on
\* past step 1
ExtractionSucceeded(r) == HasStage(r, "ANALYZED")

C15_OneRecordPerRequest ==
    (\A r \in Requests : Finished(r)) =>
        /\ \A r \in Requests :
              Cardinality(RecordsOf(r)) =
                  IF ExtractionSucceeded(r) /\ insert_result[r] # "failed" THEN 1 ELSE 0
        /\ Len(audit_log) =
              Cardinality({r \in Requests :
                              ExtractionSucceeded(r) /\ insert_result[r] # "failed"})

C15_SoloSteps ==
    /\ <<GEMINI_API_KEY, nlp, db_client>>' = <<GEMINI_API_KEY, nlp, db_client>>
    /\ (\A r \in Requests : Own(r)' = Own(r)) => audit_log' = audit_log
    /\ \A r \in Requests :
          Own(r)' # Own(r) =>
              /\ SoloStep(r, Own(r), Own(r)', audit_log, audit_log')
              /\ \A q \in Requests \ {r} : Own(q)' = Own(q)

\* C15: however the requests interleave at their awaits, each step of a
\* request is a step of that request alone in the process (so its response
\* and its audit record are those of a run alone) and leaves the other
\* requests as they are; once all requests have ended, the collection holds
\* exactly one document per request whose text was extracted and whose
\* insert did not fail.
C15_RequestsIndependent == []C15_OneRecordPerRequest /\ [][C15_SoloSteps]_vars

C15_Witness ==
    /\ \A r \in Requests : pc[r] = "responded"
    /\ RetriesExhausted("r1")
    /\ Len(slept["r1"]) = max_retries - 1
    /\ generate_calls["r2"] = 1
    /\ LastAttemptSucceeded("r2")
    /\ Len(audit_log) = 2
    /\ audit_log[1]._id = "r2"
    /\ audit_log[2]._id = "r1"
    /\ outcome["r1"].body[1].personalizedFeedback \in GenerationErrors
    /\ outcome["r2"].body[1].personalizedFeedback \notin GenerationErrors


\* The document a request stored carries the score of analyze_target_role
\* as it is, not rounded, and 0 when the target role is not in the catalog
AuditScoreIsTargetScore ==
    \A r \in Requests : \A k \in RecordsOf(r) :
        /\ request[r].target_role \in RoleNames =>
              /\ analysis[r].target_role_analysis # None
              /\ RatEq(audit_log[k].match_score,
                       analysis[r].target_role_analysis[1].score)
        /\ request[r].target_role \notin RoleNames =>
              RatEq(audit_log[k].match_score, Rat(0, 1))

\* The document of a request with a role of the catalog carries the score
\* of the role's RoleMatch
AuditScoreIsRoleMatchScore ==
    \A r \in Requests : \A k \in RecordsOf(r) :
        request[r].target_role \in RoleNames =>
            RatEq(audit_log[k].match_score,
                  RoleMatchScore(analysis[r].role_matches, request[r].target_role))


\* What the last generation call of request r answered: None when it
\* raised, Some(completion) when it returned
LastAnswer(r) == last_answer[r][1]

\* The last attempt of r returned a completion that stopped for a reason
\* other than STOP
LastAttemptStopped(r) ==
    /\ LastAnswer(r) # None
    /\ LastAnswer(r)[1].kind = "stopped"

\* The last attempt of r gave nothing to read a reason from: the call
\* raised, or the completion it returned has no candidate
LastAttemptGaveNothing(r) ==
    \/ LastAnswer(r) = None
    \/ LastAnswer(r)[1].kind = "no_candidates"

\* C17: once all 3 attempts of get_personalized_feedback have failed, the
\* string returned is "failed (Reason: X)" exactly when the last attempt
\* returned a completion that stopped for the reason X, and "No response from
\* model" exactly when the last attempt returned no completion; a completion
\* of an earlier attempt does not decide the string.
C17_LastAttemptDecides ==
    \A r \in Requests :
        (RetriesExhausted(r) /\ personalized_feedback[r] # None) =>
            LET feedback == personalized_feedback[r][1]
            IN  /\ (\E reason \in FinishReasons : feedback = FailedForReason(reason))
                       <=> LastAttemptStopped(r)
                /\ LastAttemptStopped(r) =>
                       feedback = FailedForReason(LastAnswer(r)[1].reason)
                /\ feedback = NO_RESPONSE <=> LastAttemptGaveNothing(r)

\* The third call raised, and the string names the reason of a completion
\* that an earlier attempt returned
C17_Witness ==
    \E r \in Requests :
        /\ RetriesExhausted(r)
        /\ personalized_feedback[r] # None
        /\ LastAnswer(r) = None
        /\ gen[r].response # None
        /\ gen[r].response[1].kind = "stopped"
        /\ personalized_feedback[r][1] = FailedForReason(gen[r].response[1].reason)

\* What does hold: the string is made from the latest completion any of the
\* attempts returned, `response`, whichever attempt that was
FinalStringFromLatestCompletion ==
    \A r \in Requests :
        (RetriesExhausted(r) /\ personalized_feedback[r] # None) =>
            /\ personalized_feedback[r][1] = FinalError(gen[r].response)
            /\ LastAnswer(r) # None => gen[r].response = LastAnswer(r)

=============================================================================
